---- MODULE Spec2Model ----
(***************************************************************************)
(* Model of nuitka/nodes/BuiltinRangeNodes.py: the six range/xrange node   *)
(* shapes, their analysis predicates, the compile-time folding entry and   *)
(* the range -> xrange rewrite under iteration.                            *)
(*                                                                         *)
(* Python integers are unbounded, and getIterationLength of the three      *)
(* argument nodes goes through float().  Integers are therefore kept as    *)
(* two limbs <<hi, lo>> (value hi * Base + lo, |lo| < Base), and a         *)
(* Python float as [m, e] (value m * 2^e, |m| < 2^MantissaBits), so that   *)
(* float(), /, math.ceil, round and int are computed as CPython computes   *)
(* them (IEEE-754 binary64, round-half-even).                              *)
(***************************************************************************)
EXTENDS Integers, Sequences, FiniteSets, TLC

VARIABLES
    python_version,  \* nuitka.PythonVersions.python_version of this run
    tree,            \* the node in the parent's child slot
    orphan,          \* the node whose parent link computeExpressionIter1 deleted
    trace,           \* what the trace collection and the oracle were asked
    visits,          \* optimizer visits so far
    last             \* the last operation: on which node, with what, its result

vars == <<python_version, tree, orphan, trace, visits, last>>

----------------------------------------------------------------------------
(* Python int (arbitrary precision).                                       *)

\* Width of one limb of the two-limb integers.
LimbBits == 27

Base == 2^LimbBits

\* Significand width of a CPython float (C double).
MantissaBits == 53

\* Limbs are kept with the sign of the value: -3 is <<0, -3>>.
Norm(h, l) ==
    LET fh == h + (l \div Base)
        fl == l % Base
    IN  IF fh < 0 /\ fl > 0 THEN <<fh + 1, fl - Base>> ELSE <<fh, fl>>

\* The limbs with 0 <= lo < Base (hi is then the floor of value / Base).
FloorLimbs(a) == <<a[1] + (a[2] \div Base), a[2] % Base>>

\* The int with the (machine sized) value n.
IntOf(n) == Norm(0, n)

IntAdd(a, b) == Norm(a[1] + b[1], a[2] + b[2])

IntSub(a, b) == Norm(a[1] - b[1], a[2] - b[2])

IntNeg(a) == <<-a[1], -a[2]>>

IntLess(a, b) == a[1] < b[1] \/ (a[1] = b[1] /\ a[2] < b[2])

IntLeq(a, b) == a = b \/ IntLess(a, b)

IntIsNeg(a) == a[1] < 0 \/ a[2] < 0

IntAbs(a) == IF IntIsNeg(a) THEN IntNeg(a) ELSE a

IntMax(a, b) == IF IntLess(a, b) THEN b ELSE a

\* a * n for a machine sized n.
IntMulSmall(a, n) == Norm(a[1] * n, a[2] * n)

\* The machine sized value of an int of small magnitude.
SmallOf(a) == a[1] * Base + a[2]

\* floor(a / n) and a mod n for a machine sized n > 0.
IntDivSmall(a, n) ==
    LET f == FloorLimbs(a)
    IN  Norm(f[1] \div n, (((f[1] % n) * Base) + f[2]) \div n)

IntModSmall(a, n) ==
    LET f == FloorLimbs(a)
    IN  (((f[1] % n) * Base) + f[2]) % n

IntIsEven(a) == a[2] % 2 = 0

\* a * 2^k (whole limbs first, then the remaining bits).
RECURSIVE ShiftLeft(_, _)
ShiftLeft(a, k) ==
    IF k > LimbBits THEN ShiftLeft(Norm(SmallOf(a), 0), k - LimbBits)
    ELSE LET f == FloorLimbs(a)
         IN  Norm(f[1] * 2^k + (f[2] \div 2^(LimbBits - k)),
                  (f[2] % 2^(LimbBits - k)) * 2^k)

\* floor(a / 2^k)
RECURSIVE ShiftRight(_, _)
ShiftRight(a, k) ==
    IF k > LimbBits THEN ShiftRight(IntOf(FloorLimbs(a)[1]), k - LimbBits)
    ELSE LET f == FloorLimbs(a)
         IN  Norm(f[1] \div 2^k,
                  (f[1] % 2^k) * 2^(LimbBits - k) + (f[2] \div 2^k))

----------------------------------------------------------------------------
(* Python float.                                                           *)

TwoPowMant == <<2^(MantissaBits - LimbBits), 0>>

TwoPowMantLess1 == <<2^((MantissaBits - 1) - LimbBits), 0>>

\* Number of low bits a magnitude has beyond the significand.
RECURSIVE ExcessBits(_)
ExcessBits(mag) ==
    IF IntLess(mag, TwoPowMant) THEN 0 ELSE 1 + ExcessBits(IntDivSmall(mag, 2))

\* The quotient q of a division that left the remainder r, moved to the
\* nearest integer by comparing r with half the divisor, ties to even.
NearestEven(q, r, half) ==
    IF IntLess(r, half) THEN q
    ELSE IF IntLess(half, r) THEN IntAdd(q, IntOf(1))
    ELSE IF IntIsEven(q) THEN q ELSE IntAdd(q, IntOf(1))

\* mag / 2^k rounded, given its floor q.
RoundedShift(mag, q, k) ==
    NearestEven(q, IntSub(mag, ShiftLeft(q, k)), ShiftLeft(IntOf(1), k - 1))

\* mag / 2^k rounded to the nearest integer, ties to even.
RoundHalfEven(mag, k) ==
    IF k = 0 THEN mag ELSE RoundedShift(mag, ShiftRight(mag, k), k)

\* A significand that rounding carried up to 2^MantissaBits is renormalised.
MakeFloat(neg, mag, e) ==
    LET m  == IF mag = TwoPowMant THEN TwoPowMantLess1 ELSE mag
        e2 == IF mag = TwoPowMant THEN e + 1 ELSE e
    IN  [m |-> IF neg THEN IntNeg(m) ELSE m, e |-> e2]

\* float(x) of an int x: the nearest double.
py_float(x) ==
    LET mag == IntAbs(x)
        k   == ExcessBits(mag)
    IN  MakeFloat(IntIsNeg(x), RoundHalfEven(mag, k), k)

\* Least t with floor(n * 2^t / d) >= 2^(MantissaBits - 1), for n > 0.
RECURSIVE QuotientScale(_, _, _)
QuotientScale(n, d, t) ==
    IF ~IntLess(IntDivSmall(n, d), TwoPowMantLess1) THEN t
    ELSE QuotientScale(IntMulSmall(n, 2), d, t + 1)

\* num / d * 2^e as a float: the quotient rounded to nearest, ties to even.
RoundedQuotient(neg, num, d, e) ==
    LET q  == IntDivSmall(num, d)
        r  == IntModSmall(num, d)
        up == (2 * r > d) \/ (2 * r = d /\ ~IntIsEven(q))
    IN  MakeFloat(neg, IF up THEN IntAdd(q, IntOf(1)) ELSE q, e)

\* n / d * 2^e with n scaled by 2^t to fill the significand.
ScaledQuotient(neg, n, d, e, t) ==
    RoundedQuotient(neg, ShiftLeft(n, t), d, e - t)

\* f / s of a float f and an int s /= 0 of small magnitude (s is coerced
\* to float exactly): the correctly rounded quotient.
float_div(f, s) ==
    IF f.m = IntOf(0) THEN [m |-> IntOf(0), e |-> 0]
    ELSE ScaledQuotient(IntIsNeg(f.m) # IntIsNeg(s), IntAbs(f.m),
                        SmallOf(IntAbs(s)), f.e,
                        QuotientScale(IntAbs(f.m), SmallOf(IntAbs(s)), 0))

\* math.ceil(f): the least integral float >= f.
math_ceil(f) ==
    IF f.e >= 0 THEN f
    ELSE [m |-> IntNeg(ShiftRight(IntNeg(f.m), -f.e)), e |-> 0]

\* round(f) of Python 2: nearest integral float, ties away from zero.
py_round(f) ==
    IF f.e >= 0 THEN f
    ELSE LET mag  == IntAbs(f.m)
             twice == ShiftRight(mag, (-f.e) - 1)
             r    == IntDivSmall(IntAdd(twice, IntOf(1)), 2)
         IN  [m |-> IF IntIsNeg(f.m) THEN IntNeg(r) ELSE r, e |-> 0]

\* f >= 0
float_nonneg(f) == ~IntIsNeg(f.m)

\* int(f): truncation toward zero.
py_int(f) ==
    IF f.e >= 0 THEN ShiftLeft(f.m, f.e)
    ELSE LET t == ShiftRight(IntAbs(f.m), -f.e)
         IN  IF IntIsNeg(f.m) THEN IntNeg(t) ELSE t

----------------------------------------------------------------------------
(* Argument sub-expressions and the six node shapes.                       *)

\* Python's None (an unknown integer value, an unknown length, no element).
None == <<>>

\* What a child getter of the mixins returns for a child the shape lacks.
NoChild == [absent |-> TRUE]

ExceptionKinds == {"BaseException", "ValueError"}

\* An argument sub-expression, as far as this file asks it: value is what
\* getIntegerValue() answers, effects what mayHaveSideEffects() answers,
\* raises the exception kinds mayRaiseException() answers true for, isFloat
\* whether it is a constant reference holding a float.
IntConstant(v) ==
    [absent |-> FALSE, value |-> v, effects |-> FALSE, raises |-> {},
     isFloat |-> FALSE]

FloatConstant(v) ==
    [absent |-> FALSE, value |-> v, effects |-> FALSE, raises |-> {},
     isFloat |-> TRUE]

UnknownExpr(eff, kinds) ==
    [absent |-> FALSE, value |-> None, effects |-> eff, raises |-> kinds,
     isFloat |-> FALSE]

getIntegerValue(child) == child.value

RangeKinds ==
    <<"EXPRESSION_BUILTIN_RANGE1", "EXPRESSION_BUILTIN_RANGE2",
      "EXPRESSION_BUILTIN_RANGE3">>

XrangeKinds ==
    <<"EXPRESSION_BUILTIN_XRANGE1", "EXPRESSION_BUILTIN_XRANGE2",
      "EXPRESSION_BUILTIN_XRANGE3">>

ExpressionBuiltinRange1(low) ==
    [kind |-> RangeKinds[1], low |-> low, high |-> NoChild, step |-> NoChild]

ExpressionBuiltinRange2(low, high) ==
    [kind |-> RangeKinds[2], low |-> low, high |-> high, step |-> NoChild]

ExpressionBuiltinRange3(low, high, step) ==
    [kind |-> RangeKinds[3], low |-> low, high |-> high, step |-> step]

ExpressionBuiltinXrange1(low) ==
    [kind |-> XrangeKinds[1], low |-> low, high |-> NoChild, step |-> NoChild]

ExpressionBuiltinXrange2(low, high) ==
    [kind |-> XrangeKinds[2], low |-> low, high |-> high, step |-> NoChild]

ExpressionBuiltinXrange3(low, high, step) ==
    [kind |-> XrangeKinds[3], low |-> low, high |-> high, step |-> step]

isEager(node) == \E a \in 1..3 : node.kind = RangeKinds[a]

isLazy(node) == \E a \in 1..3 : node.kind = XrangeKinds[a]

arityOf(node) ==
    CHOOSE a \in 1..3 : node.kind = RangeKinds[a] \/ node.kind = XrangeKinds[a]

\* The mixins' getLow/getHigh/getStep return None unless the shape
\* overrides them with a child getter.
getLow(node) == node.low

getHigh(node) == node.high

getStep(node) == node.step

\* The children of a node, in named_children order.
getVisitableNodes(node) ==
    SelectSeq(<<node.low, node.high, node.step>>, LAMBDA c : c # NoChild)

----------------------------------------------------------------------------
(* Length prediction.                                                      *)

\* What a method hands back is kept as a tuple whose length tells what it
\* is: None (0), a bool (1), an int (2), an exception leaving the method
\* instead of a result (3), a constant node (4).
Raised(name) == <<"raised", name, "">>

AssertionError == Raised("AssertionError")

TypeError == Raised("TypeError")

IsRaised(result) == Len(result) = 3

Range1_getIterationLength(node) ==
    LET low == getIntegerValue(getLow(node))
    IN  IF low = None THEN None ELSE IntMax(IntOf(0), low)

Range2_getIterationLength(node) ==
    LET low  == getIntegerValue(getLow(node))
        high == getIntegerValue(getHigh(node))
    IN  IF low = None THEN None
        ELSE IF high = None THEN None
        ELSE IntMax(IntOf(0), IntSub(high, low))

Range3_estimate(low, high, step) ==
    IF IntLess(low, high)
    THEN IF IntIsNeg(step) THEN [m |-> IntOf(0), e |-> 0]
         ELSE math_ceil(float_div(py_float(IntSub(high, low)), step))
    ELSE IF IntLess(IntOf(0), step) THEN [m |-> IntOf(0), e |-> 0]
         ELSE math_ceil(float_div(py_float(IntSub(high, low)), step))

Range3_getIterationLength(node) ==
    LET low  == getIntegerValue(getLow(node))
        high == getIntegerValue(getHigh(node))
        step == getIntegerValue(getStep(node))
    IN  IF low = None THEN None
        ELSE IF high = None THEN None
        ELSE IF step = None THEN None
        ELSE IF step = IntOf(0) THEN None
        ELSE LET checked(estimate) ==
                     IF ~float_nonneg(estimate) THEN AssertionError
                     ELSE py_int(estimate)
             IN  checked(py_round(Range3_estimate(low, high, step)))

Xrange1_getIterationLength(node) ==
    LET low == getIntegerValue(getLow(node))
    IN  IF low = None THEN None ELSE IntMax(IntOf(0), low)

Xrange2_getIterationLength(node) ==
    LET low  == getIntegerValue(getLow(node))
        high == getIntegerValue(getHigh(node))
    IN  IF low = None THEN None
        ELSE IF high = None THEN None
        ELSE IntMax(IntOf(0), IntSub(high, low))

Xrange3_estimate(low, high, step) ==
    IF IntLess(low, high)
    THEN IF IntIsNeg(step) THEN [m |-> IntOf(0), e |-> 0]
         ELSE math_ceil(float_div(py_float(IntSub(high, low)), step))
    ELSE IF IntLess(IntOf(0), step) THEN [m |-> IntOf(0), e |-> 0]
         ELSE math_ceil(float_div(py_float(IntSub(high, low)), step))

Xrange3_getIterationLength(node) ==
    LET low  == getIntegerValue(getLow(node))
        high == getIntegerValue(getHigh(node))
        step == getIntegerValue(getStep(node))
    IN  IF low = None THEN None
        ELSE IF high = None THEN None
        ELSE IF step = None THEN None
        ELSE IF step = IntOf(0) THEN None
        ELSE LET checked(estimate) ==
                     IF ~float_nonneg(estimate) THEN AssertionError
                     ELSE py_int(estimate)
             IN  checked(py_round(Xrange3_estimate(low, high, step)))

\* Method dispatch on the node's class.
getIterationLength(node) ==
    CASE node.kind = RangeKinds[1]  -> Range1_getIterationLength(node)
      [] node.kind = RangeKinds[2]  -> Range2_getIterationLength(node)
      [] node.kind = RangeKinds[3]  -> Range3_getIterationLength(node)
      [] node.kind = XrangeKinds[1] -> Xrange1_getIterationLength(node)
      [] node.kind = XrangeKinds[2] -> Xrange2_getIterationLength(node)
      [] node.kind = XrangeKinds[3] -> Xrange3_getIterationLength(node)

----------------------------------------------------------------------------
(* Truth value and element prediction.                                     *)

\* makeConstantReplacementNode(constant, node)
makeConstantReplacementNode(constant) ==
    <<"EXPRESSION_CONSTANT_REF", constant, "", "">>

Range_canPredictIterationValues(node) ==
    LET known(length) ==
            IF IsRaised(length) THEN length ELSE <<length # None>>
    IN  known(getIterationLength(node))

Xrange_canPredictIterationValues(node) ==
    LET known(length) ==
            IF IsRaised(length) THEN length ELSE <<length # None>>
    IN  known(getIterationLength(node))

canPredictIterationValues(node) ==
    IF isEager(node) THEN Range_canPredictIterationValues(node)
    ELSE Xrange_canPredictIterationValues(node)

Range_getTruthValue(node) ==
    LET truth(length) ==
            IF length = None THEN None
            ELSE IF IsRaised(length) THEN length
            ELSE <<IntLess(IntOf(0), length)>>
    IN  truth(getIterationLength(node))

Xrange_getTruthValue(node) ==
    LET truth(length) ==
            IF length = None THEN None
            ELSE IF IsRaised(length) THEN length
            ELSE <<IntLess(IntOf(0), length)>>
    IN  truth(getIterationLength(node))

getTruthValue(node) ==
    IF isEager(node) THEN Range_getTruthValue(node)
    ELSE Xrange_getTruthValue(node)

\* Mutant: the boundary index = length is taken as exhausted.
Range1_getIterationValue_exhaustedAtLength(node, element_index) ==
    LET length == Range1_getIterationLength(node)
    IN  IF length = None THEN None
        ELSE IF IntLeq(length, IntOf(element_index)) THEN None
        ELSE makeConstantReplacementNode(IntOf(element_index))

Range1_getIterationValue(node, element_index) ==
    LET length == Range1_getIterationLength(node)
    IN  IF length = None THEN None
        ELSE IF IntLess(length, IntOf(element_index)) THEN None
        ELSE makeConstantReplacementNode(IntOf(element_index))

Range2_getIterationValue(node, element_index) ==
    LET low  == getIntegerValue(getLow(node))
        high == getIntegerValue(getHigh(node))
    IN  IF low = None THEN None
        ELSE IF high = None THEN None
        ELSE LET result == IntAdd(low, IntOf(element_index))
             IN  IF ~IntLess(result, high) THEN None
                 ELSE makeConstantReplacementNode(result)

\* step is used without a None test: None * element_index is a TypeError.
Range3_getIterationValue(node, element_index) ==
    LET low  == getIntegerValue(getLow(node))
        high == getIntegerValue(getHigh(node))
        step == getIntegerValue(getStep(node))
    IN  IF low = None THEN None
        ELSE IF high = None THEN None
        ELSE IF step = None THEN TypeError
        ELSE LET result == IntAdd(low, IntMulSmall(step, element_index))
             IN  IF ~IntLess(result, high) THEN None
                 ELSE makeConstantReplacementNode(result)

Xrange1_getIterationValue(node, element_index) ==
    LET length == Xrange1_getIterationLength(node)
    IN  IF length = None THEN None
        ELSE IF IntLess(length, IntOf(element_index)) THEN None
        ELSE makeConstantReplacementNode(IntOf(element_index))

Xrange2_getIterationValue(node, element_index) ==
    LET low  == getIntegerValue(getLow(node))
        high == getIntegerValue(getHigh(node))
    IN  IF low = None THEN None
        ELSE IF high = None THEN None
        ELSE LET result == IntAdd(low, IntOf(element_index))
             IN  IF ~IntLess(result, high) THEN None
                 ELSE makeConstantReplacementNode(result)

Xrange3_getIterationValue(node, element_index) ==
    LET low  == getIntegerValue(getLow(node))
        high == getIntegerValue(getHigh(node))
        step == getIntegerValue(getStep(node))
    IN  IF low = None THEN None
        ELSE IF high = None THEN None
        ELSE IF step = None THEN TypeError
        ELSE LET result == IntAdd(low, IntMulSmall(step, element_index))
             IN  IF ~IntLess(result, high) THEN None
                 ELSE makeConstantReplacementNode(result)

getIterationValue(node, element_index) ==
    CASE node.kind = RangeKinds[1]  -> Range1_getIterationValue(node, element_index)
      [] node.kind = RangeKinds[2]  -> Range2_getIterationValue(node, element_index)
      [] node.kind = RangeKinds[3]  -> Range3_getIterationValue(node, element_index)
      [] node.kind = XrangeKinds[1] -> Xrange1_getIterationValue(node, element_index)
      [] node.kind = XrangeKinds[2] -> Xrange2_getIterationValue(node, element_index)
      [] node.kind = XrangeKinds[3] -> Xrange3_getIterationValue(node, element_index)

----------------------------------------------------------------------------
(* Side-effect and exception analysis.                                     *)

\* One round of the loop over the children of a range node.
Range_childMayHaveSideEffects(child) ==
    \/ child.effects
    \/ getIntegerValue(child) = None
    \/ (python_version >= 270 /\ child.isFloat)

Range_mayHaveSideEffects(node) ==
    LET children == getVisitableNodes(node)
    IN  \E i \in 1..Len(children) : Range_childMayHaveSideEffects(children[i])

Range_childMayRaiseException(child, exception_type) ==
    \/ exception_type \in child.raises
    \/ getIntegerValue(child) = None
    \/ (python_version >= 270 /\ child.isFloat)

\* A step of 0 will raise.
Range_stepIsZero(node) ==
    getStep(node) # NoChild /\ getIntegerValue(getStep(node)) = IntOf(0)

Range_mayRaiseException(node, exception_type) ==
    LET children == getVisitableNodes(node)
    IN  \/ \E i \in 1..Len(children) :
              Range_childMayRaiseException(children[i], exception_type)
        \/ Range_stepIsZero(node)

\* Mutant: the zero step test is left out.
Xrange_stepIsZero_never(node) == FALSE

\* A step of 0 will raise.
Xrange_stepIsZero(node) ==
    getStep(node) # NoChild /\ getIntegerValue(getStep(node)) = IntOf(0)

Xrange_childMayHaveSideEffects(child) ==
    \/ child.effects
    \/ getIntegerValue(child) = None

Xrange_mayHaveSideEffects(node) ==
    LET children == getVisitableNodes(node)
    IN  \E i \in 1..Len(children) : Xrange_childMayHaveSideEffects(children[i])

\* Mutant: an argument without a known integer value is trusted.
Xrange_childMayRaiseException_trusting(child, exception_type) ==
    exception_type \in child.raises

Xrange_childMayRaiseException(child, exception_type) ==
    \/ exception_type \in child.raises
    \/ getIntegerValue(child) = None

Xrange_mayRaiseException(node, exception_type) ==
    LET children == getVisitableNodes(node)
    IN  \/ \E i \in 1..Len(children) :
              Xrange_childMayRaiseException(children[i], exception_type)
        \/ Xrange_stepIsZero(node)

mayHaveSideEffects(node) ==
    IF isEager(node) THEN Range_mayHaveSideEffects(node)
    ELSE Xrange_mayHaveSideEffects(node)

mayRaiseException(node, exception_type) ==
    IF isEager(node) THEN Range_mayRaiseException(node, exception_type)
    ELSE Xrange_mayRaiseException(node, exception_type)

----------------------------------------------------------------------------
(* Folding and the rewrite under iteration.                                *)

\* Length above which a range under iteration becomes an xrange.
IterThreshold == 256

\* A change tag or description of the (node, tag, description) triples.
Tag(text) == <<text>>

Returned(node, tag, description) ==
    [node |-> node, tag |-> tag, description |-> description]

\* Mutant: the step is dropped.
makeExpressionBuiltinXrange_noStep(low, high, step) ==
    IF high = NoChild THEN ExpressionBuiltinXrange1(low)
    ELSE ExpressionBuiltinXrange2(low, high)

makeExpressionBuiltinXrange(low, high, step) ==
    IF high = NoChild THEN ExpressionBuiltinXrange1(low)
    ELSE IF step = NoChild THEN ExpressionBuiltinXrange2(low, high)
    ELSE ExpressionBuiltinXrange3(low, high, step)

\* Mutant: a length equal to the threshold is lowered too.
Range_lowersToXrange_atThreshold(node) ==
    LET above(iteration_length) ==
            /\ iteration_length # None
            /\ ~IsRaised(iteration_length)
            /\ IntLeq(IntOf(IterThreshold), iteration_length)
    IN  above(getIterationLength(node))

\* Whether computeExpressionIter1 of a range node replaces the node.
Range_lowersToXrange(node) ==
    LET above(iteration_length) ==
            /\ iteration_length # None
            /\ ~IsRaised(iteration_length)
            /\ IntLess(IntOf(IterThreshold), iteration_length)
    IN  above(getIterationLength(node))

\* The constant node a successful compile time computation leaves.
ConstantNode ==
    [kind |-> "EXPRESSION_CONSTANT_REF", low |-> NoChild, high |-> NoChild,
     step |-> NoChild]

NoNode == [kind |-> "none", low |-> NoChild, high |-> NoChild, step |-> NoChild]

\* The iteration node that consumes the range, handed to computeExpressionIter1.
IterNode ==
    [kind |-> "EXPRESSION_BUILTIN_ITER1", low |-> NoChild, high |-> NoChild,
     step |-> NoChild]

isRangeNode(node) == isEager(node) \/ isLazy(node)

----------------------------------------------------------------------------
(* Bounds of the model and the trees it starts from.                       *)

MaxVal == 3

MaxStep == 3

MaxIndex == 4

MaxVisits == 2

PythonVersions == {260, 270}

\* 2^MantissaBits + 1: the least positive int that float() cannot hold.
BeyondFloat == IntAdd(TwoPowMant, IntOf(1))

Unknowns == {UnknownExpr(FALSE, {}), UnknownExpr(TRUE, ExceptionKinds)}

BoundExprs ==
    {IntConstant(IntOf(v)) : v \in -MaxVal..MaxVal}
        \cup {IntConstant(BeyondFloat), FloatConstant(IntOf(2))}
        \cup Unknowns

StepExprs ==
    {IntConstant(IntOf(v)) : v \in -MaxStep..MaxStep}
        \cup {FloatConstant(IntOf(2))} \cup Unknowns

\* The bounds of the trees the optimizer visits are explored from.
VisitBoundExprs ==
    {IntConstant(IntOf(v)) : v \in {0, IterThreshold, IterThreshold + 1}}
        \cup {UnknownExpr(TRUE, ExceptionKinds)}

VisitStepExprs ==
    {IntConstant(IntOf(v)) : v \in {-1, 0, 1}} \cup {UnknownExpr(TRUE, ExceptionKinds)}

\* Every node the tree builder can make from the given argument expressions.
Nodes(bounds, steps) ==
    {ExpressionBuiltinRange1(l) : l \in bounds}
        \cup {ExpressionBuiltinXrange1(l) : l \in bounds}
        \cup {ExpressionBuiltinRange2(l, h) : l \in bounds, h \in bounds}
        \cup {ExpressionBuiltinXrange2(l, h) : l \in bounds, h \in bounds}
        \cup {ExpressionBuiltinRange3(l, h, s) : l \in bounds, h \in bounds, s \in steps}
        \cup {ExpressionBuiltinXrange3(l, h, s) : l \in bounds, h \in bounds, s \in steps}

NoOperation ==
    [op |-> "none", self |-> NoNode, index |-> -1, exception_type |-> "",
     is_computable |-> None, result |-> None,
     returned |-> Returned(NoNode, None, None)]

InitFrom(nodes) ==
    /\ python_version \in PythonVersions
    /\ tree \in nodes
    /\ orphan = NoNode
    /\ trace = [exits |-> 0, asked |-> 0, folds |-> 0, simulated |-> 0]
    /\ visits = 0
    /\ last = NoOperation

Init == InitFrom(Nodes(VisitBoundExprs, VisitStepExprs))

InitAnalysis == InitFrom(Nodes(BoundExprs, StepExprs))

----------------------------------------------------------------------------
(* The analysis predicates, asked of the node in the tree.                 *)

Asked(op, index, exception_type, result) ==
    /\ isRangeNode(tree)
    /\ last' = [NoOperation EXCEPT !.op = op, !.self = tree, !.index = index,
                                   !.exception_type = exception_type,
                                   !.result = result]
    /\ UNCHANGED <<python_version, tree, orphan, trace, visits>>

AskIterationLength ==
    Asked("getIterationLength", -1, "", getIterationLength(tree))

AskTruthValue == Asked("getTruthValue", -1, "", getTruthValue(tree))

AskCanPredictIterationValues ==
    Asked("canPredictIterationValues", -1, "", canPredictIterationValues(tree))

AskIterationValue ==
    \E element_index \in 0..MaxIndex :
        Asked("getIterationValue", element_index, "",
              getIterationValue(tree, element_index))

AskMayHaveSideEffects ==
    Asked("mayHaveSideEffects", -1, "", <<mayHaveSideEffects(tree)>>)

AskMayRaiseException ==
    \E exception_type \in ExceptionKinds :
        Asked("mayRaiseException", -1, exception_type,
              <<mayRaiseException(tree, exception_type)>>)

Analyse ==
    \/ AskIterationLength
    \/ AskTruthValue
    \/ AskCanPredictIterationValues
    \/ AskIterationValue
    \/ AskMayHaveSideEffects
    \/ AskMayRaiseException

----------------------------------------------------------------------------
(* The optimizer's visits.                                                 *)

\* trace_collection.getCompileTimeComputationResult(node, computation,
\* description): runs the computation (simulateCall) once; on success the
\* node is replaced by the constant, on failure the node stays and an
\* exception exit is recorded.
getCompileTimeComputationResult(succeeds) ==
    /\ tree' = IF succeeds THEN ConstantNode ELSE tree
    /\ trace' = [trace EXCEPT !.asked = @ + 1, !.folds = @ + 1,
                              !.simulated = @ + 1,
                              !.exits = IF succeeds THEN @ ELSE @ + 1]
    /\ last' = [NoOperation EXCEPT
                   !.op = "computeExpression", !.self = tree,
                   !.is_computable = <<TRUE>>,
                   !.returned = IF succeeds
                                THEN Returned(ConstantNode, Tag("new_constant"),
                                              Tag("Built-in call computed."))
                                ELSE Returned(tree, None, None)]

\* Mutant: the exception exit is not recorded.
computeBuiltinSpec_noExit(is_computable) ==
    IF ~is_computable
    THEN /\ trace' = [trace EXCEPT !.asked = @ + 1]
         /\ last' = [NoOperation EXCEPT
                        !.op = "computeExpression", !.self = tree,
                        !.is_computable = <<FALSE>>,
                        !.returned = Returned(tree, None, None)]
         /\ tree' = tree
    ELSE \E succeeds \in BOOLEAN : getCompileTimeComputationResult(succeeds)

\* computeBuiltinSpec with the oracle answering is_computable.
computeBuiltinSpec(is_computable) ==
    IF ~is_computable
    THEN /\ trace' = [trace EXCEPT !.asked = @ + 1, !.exits = @ + 1]
         /\ last' = [NoOperation EXCEPT
                        !.op = "computeExpression", !.self = tree,
                        !.is_computable = <<FALSE>>,
                        !.returned = Returned(tree, None, None)]
         /\ tree' = tree
    ELSE \E succeeds \in BOOLEAN : getCompileTimeComputationResult(succeeds)

\* computeExpression of each of the six shapes hands its children to
\* computeBuiltinSpec.
ComputeExpression ==
    /\ isRangeNode(tree)
    /\ visits < MaxVisits
    /\ \E is_computable \in BOOLEAN : computeBuiltinSpec(is_computable)
    /\ visits' = visits + 1
    /\ UNCHANGED <<python_version, orphan>>

Range_computeExpressionIter1 ==
    /\ isEager(tree)
    /\ visits < MaxVisits
    /\ IF Range_lowersToXrange(tree)
       THEN /\ tree' = makeExpressionBuiltinXrange(getLow(tree), getHigh(tree),
                                                   getStep(tree))
            /\ orphan' = tree
            /\ last' = [NoOperation EXCEPT
                           !.op = "computeExpressionIter1", !.self = tree,
                           !.returned = Returned(IterNode, Tag("new_expression"),
                               Tag("Replaced 'range' with 'xrange' built-in call for iteration."))]
       ELSE /\ last' = [NoOperation EXCEPT
                           !.op = "computeExpressionIter1", !.self = tree,
                           !.returned = Returned(IterNode, None, None)]
            /\ UNCHANGED <<tree, orphan>>
    /\ visits' = visits + 1
    /\ UNCHANGED <<python_version, trace>>

\* Mutant: the lazy mixin lowers as the eager mixin does.
Xrange_computeExpressionIter1_lowersAgain ==
    /\ isLazy(tree)
    /\ visits < MaxVisits
    /\ IF Range_lowersToXrange(tree)
       THEN /\ tree' = makeExpressionBuiltinXrange(getLow(tree), getHigh(tree),
                                                   getStep(tree))
            /\ orphan' = tree
            /\ last' = [NoOperation EXCEPT
                           !.op = "computeExpressionIter1", !.self = tree,
                           !.returned = Returned(IterNode, Tag("new_expression"),
                               Tag("Replaced 'range' with 'xrange' built-in call for iteration."))]
       ELSE /\ last' = [NoOperation EXCEPT
                           !.op = "computeExpressionIter1", !.self = tree,
                           !.returned = Returned(IterNode, None, None)]
            /\ UNCHANGED <<tree, orphan>>
    /\ visits' = visits + 1
    /\ UNCHANGED <<python_version, trace>>

Xrange_computeExpressionIter1 ==
    /\ isLazy(tree)
    /\ visits < MaxVisits
    /\ last' = [NoOperation EXCEPT
                   !.op = "computeExpressionIter1", !.self = tree,
                   !.returned = Returned(IterNode, None, None)]
    /\ visits' = visits + 1
    /\ UNCHANGED <<python_version, tree, orphan, trace>>

Visit ==
    \/ ComputeExpression
    \/ Range_computeExpressionIter1
    \/ Xrange_computeExpressionIter1

Next == Visit \/ Analyse

Spec == Init /\ [][Next]_vars

SpecAnalysis == InitAnalysis /\ [][Analyse]_vars

----------------------------------------------------------------------------
(* Properties.                                                             *)

\* A child that is a statically known integer.
KnownInteger(child) ==
    child # NoChild /\ getIntegerValue(child) # None /\ ~child.isFloat

\* The last operation was method op of a node of the given arity.
LastWas(op, arity) ==
    last.op = op /\ isRangeNode(last.self) /\ arityOf(last.self) = arity

LastAllKnown ==
    \A c \in {last.self.low, last.self.high, last.self.step} :
        c = NoChild \/ KnownInteger(c)

\* ceiling(a / n) in exact integer arithmetic, for a >= 0 and n > 0.
CeilingDiv(a, n) == IntDivSmall(IntAdd(a, IntOf(n - 1)), n)

\* len(range(low, high, step)) of the runtime, step /= 0.
RuntimeRangeLength(low, high, step) ==
    IF IntLess(IntOf(0), step) /\ IntLess(low, high)
    THEN CeilingDiv(IntSub(high, low), SmallOf(step))
    ELSE IF IntIsNeg(step) /\ IntLess(high, low)
    THEN CeilingDiv(IntSub(low, high), SmallOf(IntNeg(step)))
    ELSE IntOf(0)

\* C1: for a three-argument node (eager or lazy) whose low, high and step
\* are statically known integers with step /= 0, getIterationLength() is the
\* number of elements the runtime range(low, high, step) produces, and the
\* 'estimate >= 0' assertion does not fail.
C1_LengthMatchesRuntime ==
    (/\ LastWas("getIterationLength", 3)
     /\ LastAllKnown
     /\ getIntegerValue(last.self.step) # IntOf(0))
        => last.result = RuntimeRangeLength(getIntegerValue(last.self.low),
                                            getIntegerValue(last.self.high),
                                            getIntegerValue(last.self.step))

\* C2: for a three-argument node with statically known integers low, high,
\* step (step /= 0), getIterationValue(index) is absent exactly when
\* index >= getIterationLength(), and otherwise is the constant
\* low + index * step, descending ranges included.
C2_ValueMatchesLength ==
    (/\ LastWas("getIterationValue", 3)
     /\ LastAllKnown
     /\ getIntegerValue(last.self.step) # IntOf(0))
        => last.result =
              IF IntLeq(getIterationLength(last.self), IntOf(last.index))
              THEN None
              ELSE makeConstantReplacementNode(
                       IntAdd(getIntegerValue(last.self.low),
                              IntMulSmall(getIntegerValue(last.self.step),
                                          last.index)))

\* C3: for a one-argument node (eager or lazy) with statically known low and
\* length = max(0, low), getIterationValue(index) is absent if and only if
\* index > length, and for 0 <= index <= length it is the constant index; at
\* index = length it is a value.
C3_Arity1BoundaryValue ==
    (LastWas("getIterationValue", 1) /\ getIntegerValue(last.self.low) # None)
        => LET low    == getIntegerValue(last.self.low)
               length == IF IntIsNeg(low) THEN IntOf(0) ELSE low
               index  == IntOf(last.index)
           IN  /\ (last.result = None) <=> IntLess(length, index)
               /\ IntLeq(index, length)
                    => last.result = makeConstantReplacementNode(index)

\* A one-argument node was asked for the element at index = length > 0 and
\* answered with the constant.
C3_Witness ==
    /\ LastWas("getIterationValue", 1)
    /\ getIntegerValue(last.self.low) = IntOf(last.index)
    /\ last.index > 0
    /\ last.result = makeConstantReplacementNode(IntOf(last.index))

\* C4: computeExpressionIter1 on an eager node replaces it in its parent
\* exactly when its length is known and greater than 256: then the parent's
\* child is a lazy node of the same arity with the same low/high/step and the
\* tag is "new_expression"; otherwise (unknown, or <= 256) the parent's child
\* is still the eager node and the tag is empty.
C4_RewriteExactlyAboveThreshold ==
    (last.op = "computeExpressionIter1" /\ isEager(last.self))
        => LET length == getIterationLength(last.self)
           IN  IF length # None /\ ~IsRaised(length) /\ IntLess(IntOf(256), length)
               THEN /\ tree.kind = XrangeKinds[arityOf(last.self)]
                    /\ tree.low = last.self.low
                    /\ tree.high = last.self.high
                    /\ tree.step = last.self.step
                    /\ last.returned.tag = Tag("new_expression")
               ELSE /\ tree = last.self
                    /\ last.returned.tag = None

\* An eager node of length 257 was visited under iteration and the parent now
\* holds a lazy node.
C4_Witness ==
    /\ last.op = "computeExpressionIter1"
    /\ isEager(last.self)
    /\ getIterationLength(last.self) = IntOf(257)
    /\ isLazy(tree)
    /\ last.returned.tag = Tag("new_expression")

\* A computeExpression visit in which the oracle answered "not computable".
NotComputableVisit ==
    /\ visits' = visits + 1
    /\ last'.op = "computeExpression"
    /\ last'.is_computable = <<FALSE>>

\* C5: when isCompileTimeComputable answers false, computeExpression records
\* exactly one exception exit, calls neither simulateCall nor
\* getCompileTimeComputationResult, returns the same node with no tag and no
\* description, and leaves the node and the tree as they were.
C5_AbandonedFoldLeavesNode ==
    [][NotComputableVisit
        => /\ trace'.exits = trace.exits + 1
           /\ trace'.simulated = trace.simulated
           /\ trace'.folds = trace.folds
           /\ last'.returned = Returned(tree, None, None)
           /\ last'.self = tree
           /\ tree' = tree
           /\ orphan' = orphan]_vars

\* The oracle declined a lazy three-argument node: one exit is recorded and the
\* node is still in the tree.
C5_Witness ==
    /\ last.op = "computeExpression"
    /\ last.is_computable = <<FALSE>>
    /\ last.self.kind = XrangeKinds[3]
    /\ trace.exits = 1
    /\ tree = last.self

HasUnknownBound(node) ==
    \E c \in {node.low, node.high, node.step} :
        c # NoChild /\ getIntegerValue(c) = None

\* C6: if at least one bound of a node (any shape) has no statically known
\* integer value, mayHaveSideEffects() is true, mayRaiseException(kind) is
\* true for every kind and getIterationLength() is unknown, whatever the other
\* bounds are and wherever the unknown bound stands.
C6_UnknownBoundPropagates ==
    (isRangeNode(last.self) /\ HasUnknownBound(last.self))
        => /\ last.op = "mayHaveSideEffects" => last.result = <<TRUE>>
           /\ last.op = "mayRaiseException" => last.result = <<TRUE>>
           /\ last.op = "getIterationLength" => last.result = None

\* A three-argument node whose low and high are known and whose step, the
\* last child, is an unknown expression that itself neither raises nor has
\* an effect, was asked mayRaiseException.
C6_Witness ==
    /\ LastWas("mayRaiseException", 3)
    /\ KnownInteger(last.self.low)
    /\ KnownInteger(last.self.high)
    /\ last.self.step = UnknownExpr(FALSE, {})
    /\ last.result = <<TRUE>>

\* C7: for a three-argument node (eager or lazy) whose step is statically
\* known to be integer 0, mayRaiseException(kind) is true and
\* getIterationLength() is unknown, for any low and high.
C7_ZeroStepRaises ==
    (/\ isRangeNode(last.self)
     /\ arityOf(last.self) = 3
     /\ KnownInteger(last.self.step)
     /\ getIntegerValue(last.self.step) = IntOf(0))
        => /\ last.op = "mayRaiseException" => last.result = <<TRUE>>
           /\ last.op = "getIterationLength" => last.result = None

\* A node with known low and high, step 0 and no argument that may raise by
\* itself was asked mayRaiseException.
C7_Witness ==
    /\ LastWas("mayRaiseException", 3)
    /\ LastAllKnown
    /\ getIntegerValue(last.self.step) = IntOf(0)
    /\ \A c \in {last.self.low, last.self.high, last.self.step} : c.raises = {}
    /\ last.result = <<TRUE>>

AnalysisOps ==
    {"getTruthValue", "mayHaveSideEffects", "mayRaiseException",
     "getIterationLength", "canPredictIterationValues", "getIterationValue"}

\* C8: the analysis predicates are pure and total: each of them returns a
\* result without raising and without changing the node or the tree, for
\* every shape and every combination of known and unknown bounds.
C8_PredicatesPureAndTotal ==
    [][(visits' = visits /\ last'.op \in AnalysisOps)
        => /\ ~IsRaised(last'.result)
           /\ tree' = tree
           /\ orphan' = orphan
           /\ trace' = trace]_vars

\* C9: getIterationValue(index) returns a value only if
\* canPredictIterationValues() is true.
C9_ValueOnlyWhenPredictable ==
    (last.op = "getIterationValue" /\ isRangeNode(last.self)
        /\ last.result # None /\ ~IsRaised(last.result))
        => canPredictIterationValues(last.self) = <<TRUE>>

\* The lazy node makeExpressionBuiltinXrange builds from a node's arguments.
LazyTwin(node) ==
    makeExpressionBuiltinXrange(getLow(node), getHigh(node), getStep(node))

\* C10: an eager node and the lazy node built by makeExpressionBuiltinXrange
\* from the same low/high/step give the same getIterationLength(),
\* getTruthValue(), canPredictIterationValues() and getIterationValue(index).
C10_RewritePreservesPredictions ==
    (isRangeNode(last.self) /\ isEager(last.self))
        => /\ last.op = "getIterationLength"
                => last.result = getIterationLength(LazyTwin(last.self))
           /\ last.op = "getTruthValue"
                => last.result = getTruthValue(LazyTwin(last.self))
           /\ last.op = "canPredictIterationValues"
                => last.result = canPredictIterationValues(LazyTwin(last.self))
           /\ last.op = "getIterationValue"
                => last.result = getIterationValue(LazyTwin(last.self), last.index)

\* An eager three-argument node with known bounds predicted an element.
C10_Witness ==
    /\ LastWas("getIterationValue", 3)
    /\ isEager(last.self)
    /\ LastAllKnown
    /\ Len(last.result) = 4

\* A computeExpressionIter1 visit is taken in this step.
Iter1Visit ==
    /\ visits' = visits + 1
    /\ last'.op = "computeExpressionIter1"

\* C11: computeExpressionIter1 on a lazy node replaces nothing and returns
\* (iter_node, None, None) whatever its length; a visit rewrites only while
\* no rewrite has happened yet, and once an eager node has been rewritten
\* every further computeExpressionIter1 visit leaves the tree, the detached
\* node and the trace collection as they were.
C11_LazyNodeIsFixpoint ==
    [][Iter1Visit
        => /\ isLazy(tree)
               => /\ tree' = tree
                  /\ orphan' = orphan
                  /\ last'.returned = Returned(IterNode, None, None)
           /\ last'.returned.tag = Tag("new_expression")
               => orphan = NoNode /\ isEager(tree) /\ isLazy(tree')
           /\ orphan # NoNode
               => /\ UNCHANGED <<tree, orphan, trace>>
                  /\ last'.returned.tag = None]_vars

\* A lazy node that came from a rewrite has been visited again.
C11_Witness ==
    /\ last.op = "computeExpressionIter1"
    /\ isLazy(last.self)
    /\ isEager(orphan)
    /\ tree = last.self
    /\ arityOf(tree) = arityOf(orphan)
====
